---- MODULE Spec2Model ----
(***************************************************************************)
(* Model of two Home Assistant platform adapters:                          *)
(*   - sensor/forecast.py   : Forecast.io sensors over a throttled cache   *)
(*   - garage_door/zwave.py : Z-Wave garage door entity                    *)
(*                                                                         *)
(* Python's None is the empty tuple; an optional value x is <<x>>.         *)
(* Time is an integer number of seconds (utcnow()).                        *)
(***************************************************************************)
EXTENDS Integers, Sequences, FiniteSets, TLC

None == <<>>

Some(x) == <<x>>

(***************************************************************************)
(* Bounds of the model.                                                    *)
(***************************************************************************)
\* the clock advances at most this many times
MaxTicks == 4

(***************************************************************************)
(* sensor/forecast.py                                                      *)
(***************************************************************************)
\* forecast.py:50  MIN_TIME_BETWEEN_UPDATES = timedelta(seconds=120)
MIN_TIME_BETWEEN_UPDATES == 120

\* amounts by which the clock advances between two calls
TickSteps == {59, 60}

\* forecast.py:22-46.  Row = <<name, si, us, ca, uk, uk2>>; Python's index k
\* is position k + 1 here.  A unit of None is the string "None".
SENSOR_TYPES ==
    [summary |-> <<"Summary", "None", "None", "None", "None", "None">>,
     minutely_summary |-> <<"Minutely Summary", "None", "None", "None", "None", "None">>,
     hourly_summary |-> <<"Hourly Summary", "None", "None", "None", "None", "None">>,
     daily_summary |-> <<"Daily Summary", "None", "None", "None", "None", "None">>,
     icon |-> <<"Icon", "None", "None", "None", "None", "None">>,
     nearest_storm_distance |-> <<"Nearest Storm Distance", "km", "m", "km", "km", "m">>,
     nearest_storm_bearing |-> <<"Nearest Storm Bearing", "deg", "deg", "deg", "deg", "deg">>,
     precip_type |-> <<"Precip", "None", "None", "None", "None", "None">>,
     precip_intensity |-> <<"Precip Intensity", "mm", "in", "mm", "mm", "mm">>,
     precip_probability |-> <<"Precip Probability", "%", "%", "%", "%", "%">>,
     temperature |-> <<"Temperature", "degC", "degF", "degC", "degC", "degC">>,
     apparent_temperature |-> <<"Apparent Temperature", "degC", "degF", "degC", "degC", "degC">>,
     dew_point |-> <<"Dew point", "degC", "degF", "degC", "degC", "degC">>,
     wind_speed |-> <<"Wind Speed", "m/s", "mph", "km/h", "mph", "mph">>,
     wind_bearing |-> <<"Wind Bearing", "deg", "deg", "deg", "deg", "deg">>,
     cloud_cover |-> <<"Cloud Coverage", "%", "%", "%", "%", "%">>,
     humidity |-> <<"Humidity", "%", "%", "%", "%", "%">>,
     pressure |-> <<"Pressure", "mbar", "mbar", "mbar", "mbar", "mbar">>,
     visibility |-> <<"Visibility", "km", "m", "km", "km", "m">>,
     ozone |-> <<"Ozone", "DU", "DU", "DU", "DU", "DU">>]

SensorKeys == DOMAIN SENSOR_TYPES

\* forecast.py:12  TEMP_CELSIUS, and the other temperature unit of the host
TEMP_CELSIUS == "degC"

TEMP_FAHRENHEIT == "degF"

\* the five throttled operations of ForeCastData
Ops == {"update", "update_currently", "update_minutely", "update_hourly",
        "update_daily"}

\* flags.units as the service may report it ("xx": a value the table of
\* update_unit_of_measurement does not know)
ReportedUnits == {"si", "us", "ca", "uk", "uk2", "xx"}

\* the outcome of one forecastio.load_forecast call: a payload reporting one
\* of the given unit systems, or one of ConnectError / HTTPError / Timeout /
\* ValueError
FetchOutcomes(units) ==
    {[ok |-> FALSE, units |-> "xx"]} \cup
    {[ok |-> TRUE, units |-> u] : u \in units}

\* the unit systems the service reports in the timeline specification
TimelineUnits == {"si", "us"}

\* the monitored_conditions lists of the timeline configurations ("bogus" is
\* not a key of SENSOR_TYPES)
TimelineConditions ==
    {<<>>,
     <<"temperature">>,
     <<"daily_summary">>,
     <<"bogus", "hourly_summary">>,
     <<"temperature", "daily_summary">>,
     <<"minutely_summary", "temperature">>,
     <<"minutely_summary", "minutely_summary">>,
     <<"humidity", "hourly_summary", "daily_summary">>}

\* configurations: hass.config.latitude/longitude/temperature_unit and the
\* platform config (api key present or not, optional 'units',
\* monitored_conditions)
MakeConfig(la, lo, k, u, tu, mc) ==
    [latitude |-> la, longitude |-> lo, has_api_key |-> k, units |-> u,
     temperature_unit |-> tu, monitored_conditions |-> mc]

Configs ==
    {MakeConfig(la, lo, k, None, TEMP_CELSIUS, <<"temperature">>) :
        la \in {None, Some(52)}, lo \in {None, Some(4)}, k \in BOOLEAN}
    \cup
    {MakeConfig(Some(52), Some(4), TRUE, u, tu, <<>>) :
        u \in {None, Some("uk2")}, tu \in {TEMP_CELSIUS, TEMP_FAHRENHEIT}}
    \cup
    {MakeConfig(Some(52), Some(4), TRUE, None, TEMP_CELSIUS, mc) :
        mc \in TimelineConditions}

\* configurations with one sensor, one for each key of the table
UnitConfigs ==
    {MakeConfig(Some(52), Some(4), TRUE, None, TEMP_CELSIUS, <<c>>) :
        c \in SensorKeys}

VARIABLES
    clock,              \* utcnow(), seconds
    pc,                 \* position of forecast setup_platform / the platform
    config,             \* the configuration setup_platform is called with
    cache,              \* the shared ForeCastData object, with its throttles
    sensors,            \* the ForeCastSensor objects constructed so far
    remaining,          \* monitored_conditions still to be looped over
    result,             \* what setup_platform returned / raised
    added,              \* the lists add_devices was called with
    setup,              \* bookkeeping of the setup run (fetches, end time)
    ticks,              \* how many times the clock advanced
    last                \* the handler that ran last, and when

fvars == <<clock, pc, config, cache, sensors, remaining, result, added, setup,
          ticks, last>>

VARIABLES
    network_up,         \* zwave.NETWORK is not None
    zdata,              \* value.data of every value of the network
    change_verified,    \* the change-verified flag of every value
    door,               \* the ZwaveGarageDoor entity: its _value and _node
    gadded,             \* how many entities add_devices was given
    gpc,                \* garage setup_platform has run or not
    pending,            \* the switch command on its way to the device
    command,            \* the last door command, and whether it was applied
    event               \* the last value-changed signal the entity received

gvars == <<network_up, zdata, change_verified, door, gadded, gpc, pending,
           command, event>>

(***************************************************************************)
(* ForeCastData.  The record holds the object's fields (forecast.py        *)
(* 200-210), the per-operation throttle state (last_call), and three       *)
(* history fields that the program does not have: ran (the operations      *)
(* whose body ran in the current handler), raised (the handler is          *)
(* unwinding with ValueError) and last_exec (when each body last ran,      *)
(* whether or not it succeeded).                                           *)
(***************************************************************************)
\* forecast.py:198-210, before self.update()
NewForeCastData(units) ==
    [units |-> units,
     data |-> None,
     unit_system |-> None,
     data_currently |-> None,
     data_minutely |-> None,
     data_hourly |-> None,
     data_daily |-> None,
     last_call |-> [op \in Ops |-> None],
     last_exec |-> [op \in Ops |-> None],
     ran |-> {},
     raised |-> FALSE]

\* a handler starts: nothing ran yet, nothing raised
Enter(w) == [w EXCEPT !.ran = {}, !.raised = FALSE]

\* homeassistant.util.Throttle: the body may run when the operation never
\* completed, or completed at least min_time ago
ThrottleOpen(min_time, w, op, now) ==
    \/ w.last_call[op] = None
    \/ now - w.last_call[op][1] >= min_time

\* the wrapper Throttle puts around a method: run the body when the
\* throttle is open and record the time the body completed; a body that
\* raises records nothing.  after == the object after the body.
Throttle(min_time, w, op, now, after) ==
    IF ThrottleOpen(min_time, w, op, now)
    THEN [after EXCEPT
            !.last_call[op] = IF after.raised THEN @ ELSE Some(now),
            !.last_exec[op] = Some(now),
            !.ran = @ \cup {op}]
    ELSE w

\* a body that drops the old snapshot before it fetches
update_body_clearing(w, now, outcome) ==
    IF outcome.ok
    THEN [w EXCEPT
            !.data = Some([fetched |-> now, units |-> outcome.units]),
            !.unit_system = Some(outcome.units)]
    ELSE [w EXCEPT !.raised = TRUE, !.data = None]

\* forecast.py:217-226, the body of update()
update_body(w, now, outcome) ==
    IF outcome.ok
    THEN [w EXCEPT
            !.data = Some([fetched |-> now, units |-> outcome.units]),
            !.unit_system = Some(outcome.units)]
    ELSE [w EXCEPT !.raised = TRUE]

\* update() decorated with half the interval
update_short_interval(w, now, outcome) ==
    Throttle(60, w, "update", now, update_body(w, now, outcome))

\* update() without its decorator
update_unthrottled(w, now, outcome) ==
    [update_body(w, now, outcome) EXCEPT
        !.last_exec["update"] = Some(now),
        !.ran = @ \cup {"update"}]

\* forecast.py:214-226
update(w, now, outcome) ==
    Throttle(MIN_TIME_BETWEEN_UPDATES, w, "update", now,
             update_body(w, now, outcome))

\* forecastio's data.currently() / minutely() / hourly() / daily(): the
\* sub-view of the snapshot held in data
SubView(w, view) == Some([view |-> view, src |-> w.data[1].fetched])

\* forecast.py:228-231
update_currently(w, now) ==
    Throttle(MIN_TIME_BETWEEN_UPDATES, w, "update_currently", now,
             [w EXCEPT !.data_currently = SubView(w, "currently")])

\* forecast.py:233-236
update_minutely(w, now) ==
    Throttle(MIN_TIME_BETWEEN_UPDATES, w, "update_minutely", now,
             [w EXCEPT !.data_minutely = SubView(w, "minutely")])

\* forecast.py:238-241
update_hourly(w, now) ==
    Throttle(MIN_TIME_BETWEEN_UPDATES, w, "update_hourly", now,
             [w EXCEPT !.data_hourly = SubView(w, "hourly")])

\* update_daily() sharing the throttle of update()
update_daily_shared(w, now) ==
    Throttle(MIN_TIME_BETWEEN_UPDATES, w, "update", now,
             [w EXCEPT !.data_daily = SubView(w, "daily")])

\* forecast.py:243-246
update_daily(w, now) ==
    Throttle(MIN_TIME_BETWEEN_UPDATES, w, "update_daily", now,
             [w EXCEPT !.data_daily = SubView(w, "daily")])

\* forecast.py:198-212: the fields, then self.update()
ForeCastData_init(units, now, outcome) ==
    update(NewForeCastData(units), now, outcome)

(***************************************************************************)
(* ForeCastSensor.  A sensor is a record of its fields (forecast.py        *)
(* 100-105).  A state value names the attribute read, the fetch time of    *)
(* the snapshot it was read from (None: the getattr default) and the       *)
(* conversion applied to it.                                               *)
(***************************************************************************)
\* forecast.py:184-190, on the keys of SENSOR_TYPES
convert_to_camel ==
    [summary |-> "summary",
     minutely_summary |-> "minutelySummary",
     hourly_summary |-> "hourlySummary",
     daily_summary |-> "dailySummary",
     icon |-> "icon",
     nearest_storm_distance |-> "nearestStormDistance",
     nearest_storm_bearing |-> "nearestStormBearing",
     precip_type |-> "precipType",
     precip_intensity |-> "precipIntensity",
     precip_probability |-> "precipProbability",
     temperature |-> "temperature",
     apparent_temperature |-> "apparentTemperature",
     dew_point |-> "dewPoint",
     wind_speed |-> "windSpeed",
     wind_bearing |-> "windBearing",
     cloud_cover |-> "cloudCover",
     humidity |-> "humidity",
     pressure |-> "pressure",
     visibility |-> "visibility",
     ozone |-> "ozone"]

\* getattr(view, attr, default): the attribute of the sub-view, or the
\* default when there is no sub-view
GetAttr(view, attr, conv) ==
    [field |-> attr,
     src |-> IF view = None THEN None ELSE Some(view[1].src),
     conv |-> conv]

\* forecast.py:166-181
get_currently_state(type, data) ==
    IF type \in {"precip_probability", "cloud_cover", "humidity"}
    THEN GetAttr(data, convert_to_camel[type], "percent_round1")
    ELSE IF type \in {"dew_point", "temperature", "apparent_temperature",
                      "pressure", "ozone"}
    THEN GetAttr(data, convert_to_camel[type], "round1")
    ELSE GetAttr(data, convert_to_camel[type], "raw")

\* forecast.py:131-137: the column of SENSOR_TYPES for a unit system
UnitIndex(unit_system) ==
    IF unit_system = Some("si") THEN 1
    ELSE IF unit_system = Some("us") THEN 2
    ELSE IF unit_system = Some("ca") THEN 3
    ELSE IF unit_system = Some("uk") THEN 4
    ELSE IF unit_system = Some("uk2") THEN 5
    ELSE 1

\* the units looked up from the requested unit system
update_unit_of_measurement_requested(s, w) ==
    [s EXCEPT !.unit_of_measurement =
        SENSOR_TYPES[s.type][UnitIndex(Some(w.units)) + 1]]

\* forecast.py:129-138 (self.unit_system is forecast_data.unit_system,
\* forecast.py:124-127)
update_unit_of_measurement(s, w) ==
    [s EXCEPT !.unit_of_measurement =
        SENSOR_TYPES[s.type][UnitIndex(w.unit_system) + 1]]

\* forecast.py:140-164: the cache and the sensor after sensor.update()
ForeCastSensor_update(s, w, now, outcome) ==
    LET w1 == update(w, now, outcome)
        s1 == update_unit_of_measurement(s, w1)
    IN  IF w1.raised THEN [cache |-> w1, sensor |-> s]
        ELSE IF s.type = "minutely_summary"
        THEN LET w2 == update_minutely(w1, now)
             IN [cache |-> w2,
                 sensor |-> [s1 EXCEPT !.state =
                     Some(GetAttr(w2.data_minutely, "summary", "raw"))]]
        ELSE IF s.type = "hourly_summary"
        THEN LET w2 == update_hourly(w1, now)
             IN [cache |-> w2,
                 sensor |-> [s1 EXCEPT !.state =
                     Some(GetAttr(w2.data_hourly, "summary", "raw"))]]
        ELSE IF s.type = "daily_summary"
        THEN LET w2 == update_daily(w1, now)
             IN [cache |-> w2,
                 sensor |-> [s1 EXCEPT !.state =
                     Some(GetAttr(w2.data_daily, "summary", "raw"))]]
        ELSE LET w2 == update_currently(w1, now)
             IN [cache |-> w2,
                 sensor |-> [s1 EXCEPT !.state =
                     Some(get_currently_state(s.type, w2.data_currently))]]

\* forecast.py:98-107: the fields, then self.update()
ForeCastSensor_init(w, sensor_type, now, outcome) ==
    ForeCastSensor_update(
        [type |-> sensor_type,
         name |-> SENSOR_TYPES[sensor_type][1],
         state |-> None,
         unit_of_measurement |-> "None"],
        w, now, outcome)

(***************************************************************************)
(* setup_platform (forecast.py:53-91) and the host's polling.              *)
(***************************************************************************)
\* homeassistant.helpers.validate_config({DOMAIN: config},
\* {DOMAIN: [CONF_API_KEY]}): the required key is in the configuration
validate_config(cfg) == cfg.has_api_key

\* the test of the longitude left out
ConfigRejected_latitude_only(cfg) ==
    \/ cfg.latitude = None
    \/ ~validate_config(cfg)

\* forecast.py:56-61: the configuration is rejected
ConfigRejected(cfg) ==
    \/ cfg.latitude = None \/ cfg.longitude = None
    \/ ~validate_config(cfg)

\* forecast.py:63-68
SetupUnits(cfg) ==
    IF cfg.units # None THEN cfg.units[1]
    ELSE IF cfg.temperature_unit = TEMP_CELSIUS THEN "si"
    ELSE "us"

Fetched(w) == IF "update" \in w.ran THEN 1 ELSE 0

Handler(h, i) == [handler |-> h, sensor |-> i, at |-> clock]

FInit(cfgs) ==
    /\ clock = 0
    /\ pc = "start"
    /\ config \in cfgs
    /\ cache = NewForeCastData("si")
    /\ sensors = <<>>
    /\ remaining = <<>>
    /\ result = "pending"
    /\ added = <<>>
    /\ setup = [began |-> 0, first_fetch |-> "none", fetches |-> 0,
                ended |-> None]
    /\ ticks = 0
    /\ last = [handler |-> "none", sensor |-> 0, at |-> 0]

\* forecast.py:53-79: validation, the data fetcher and its first calls
SetupPlatform(outcome) ==
    /\ pc = "start"
    /\ last' = Handler("setup_platform", 0)
    /\ IF ConfigRejected(config)
       THEN /\ pc' = "failed"
            /\ result' = "False"
            /\ UNCHANGED <<cache, remaining, setup>>
       ELSE LET w0 == ForeCastData_init(SetupUnits(config), clock, outcome)
                w1 == update_currently(w0, clock)
            IN  IF w0.raised
                THEN /\ pc' = "failed"
                     /\ result' = "False"
                     /\ setup' = [setup EXCEPT !.fetches = @ + Fetched(w0),
                                                !.first_fetch = "raised"]
                     /\ UNCHANGED <<cache, remaining>>
                ELSE /\ pc' = "sensors"
                     /\ cache' = w1
                     /\ remaining' = config.monitored_conditions
                     /\ setup' = [setup EXCEPT !.fetches = @ + Fetched(w1),
                                                !.first_fetch = "ok"]
                     /\ UNCHANGED result
    /\ UNCHANGED <<clock, ticks, config, sensors, added>>
    /\ UNCHANGED gvars

\* forecast.py:85-89: one turn of the loop over monitored_conditions
SetupSensor(outcome) ==
    /\ pc = "sensors"
    /\ remaining # <<>>
    /\ LET variable == Head(remaining)
           r == ForeCastSensor_init(Enter(cache), variable, clock, outcome)
       IN  IF variable \in SensorKeys
           THEN /\ cache' = r.cache
                /\ setup' = [setup EXCEPT !.fetches = @ + Fetched(r.cache)]
                /\ last' = Handler("sensor_init", Len(sensors) + 1)
                /\ IF r.cache.raised
                   THEN /\ pc' = "raised"
                        /\ result' = "ValueError"
                        /\ UNCHANGED sensors
                   ELSE /\ sensors' = Append(sensors, r.sensor)
                        /\ UNCHANGED <<pc, result>>
           ELSE /\ cache' = Enter(cache)
                /\ last' = Handler("unknown_type", 0)
                /\ UNCHANGED <<setup, sensors, pc, result>>
    /\ remaining' = Tail(remaining)
    /\ UNCHANGED <<clock, ticks, config, added>>
    /\ UNCHANGED gvars

\* forecast.py:91: add_devices(sensors); setup_platform returns None
SetupAddDevices ==
    /\ pc = "sensors"
    /\ remaining = <<>>
    /\ added' = Append(added, sensors)
    /\ pc' = "running"
    /\ result' = "None"
    /\ setup' = [setup EXCEPT !.ended = Some(clock)]
    /\ cache' = Enter(cache)
    /\ last' = Handler("add_devices", 0)
    /\ UNCHANGED <<clock, ticks, config, sensors, remaining>>
    /\ UNCHANGED gvars

\* the host polls sensor i: forecast.py:140-164
SensorUpdate(i, outcome) ==
    /\ pc = "running"
    /\ i \in 1..Len(sensors)
    /\ LET r == ForeCastSensor_update(sensors[i], Enter(cache), clock, outcome)
       IN  /\ cache' = r.cache
           /\ sensors' = [sensors EXCEPT ![i] = r.sensor]
    /\ last' = Handler("sensor_update", i)
    /\ UNCHANGED <<clock, ticks, pc, config, remaining, result, added, setup>>
    /\ UNCHANGED gvars

\* time passes between two calls
Tick(d) ==
    /\ pc \in {"sensors", "running"}
    /\ ticks < MaxTicks
    /\ ticks' = ticks + 1
    /\ clock' = clock + d
    /\ UNCHANGED <<pc, config, cache, sensors, remaining, result, added, setup, last>>
    /\ UNCHANGED gvars

FNext(units) ==
    \/ \E outcome \in FetchOutcomes(units) : SetupPlatform(outcome)
    \/ \E outcome \in FetchOutcomes(units) : SetupSensor(outcome)
    \/ SetupAddDevices
    \/ \E i \in DOMAIN sensors, outcome \in FetchOutcomes(units) :
            SensorUpdate(i, outcome)
    \/ \E d \in TickSteps : Tick(d)

(***************************************************************************)
(* garage_door/zwave.py                                                    *)
(***************************************************************************)
\* zwave.py:15
COMMAND_CLASS_SWITCH_BINARY == 37

\* the values of the Z-Wave network, in the order node.values holds them.
\* Node 1: a binary switch with two indexes and a multilevel switch (38);
\* node 2: a binary sensor (48) and a binary switch at index 1 only;
\* node 3: a binary switch with two instances at index 0.
NetworkValues ==
    <<[node |-> 1, command_class |-> 37, index |-> 0, instance |-> 1],
      [node |-> 1, command_class |-> 37, index |-> 1, instance |-> 1],
      [node |-> 1, command_class |-> 38, index |-> 0, instance |-> 1],
      [node |-> 2, command_class |-> 48, index |-> 0, instance |-> 1],
      [node |-> 2, command_class |-> 37, index |-> 1, instance |-> 1],
      [node |-> 3, command_class |-> 37, index |-> 0, instance |-> 1],
      [node |-> 3, command_class |-> 37, index |-> 0, instance |-> 2]>>

ValueIds == DOMAIN NetworkValues

\* what the host's discovery hands to setup_platform: nothing, or the ids
\* of a node and of one of its values
Discoveries ==
    {None} \cup
    {Some([node_id |-> NetworkValues[v].node, value_id |-> v]) : v \in ValueIds}

\* node.get_values(class_id=...): the node's values of a command class, in
\* the order of the network's values
RECURSIVE get_values(_, _, _)
get_values(node, class_id, from) ==
    IF from > Len(NetworkValues) THEN <<>>
    ELSE IF /\ NetworkValues[from].node = node
            /\ NetworkValues[from].command_class = class_id
         THEN <<from>> \o get_values(node, class_id, from + 1)
         ELSE get_values(node, class_id, from + 1)

\* the loop without the test of the index
RECURSIVE ScanValues_any_index(_)
ScanValues_any_index(vs) ==
    IF vs = <<>> THEN None
    ELSE IF NetworkValues[Head(vs)].command_class = 37
         THEN Some(zdata[Head(vs)])
         ELSE ScanValues_any_index(Tail(vs))

\* zwave.py:53-56: the loop of is_closed over the values found
RECURSIVE ScanValues(_)
ScanValues(vs) ==
    IF vs = <<>> THEN None
    ELSE IF /\ NetworkValues[Head(vs)].command_class = 37
            /\ NetworkValues[Head(vs)].index = 0
         THEN Some(zdata[Head(vs)])
         ELSE ScanValues(Tail(vs))

\* zwave.py:50-56 (None when the loop ends without a return)
is_closed ==
    ScanValues(get_values(door[1].node, COMMAND_CLASS_SWITCH_BINARY, 1))

\* the handler comparing the values instead of their nodes
value_changed_same_value(value) ==
    door[1].value = value

\* zwave.py:44-48: whether value_changed asks for update_ha_state(True)
value_changed(value) ==
    NetworkValues[door[1].value].node = NetworkValues[value].node

\* node.set_switch(value_id, value) of the Z-Wave library: the command is
\* sent when value_id is one of the node's binary switches
set_switch(value_id, value) ==
    IF NetworkValues[value_id].command_class = COMMAND_CLASS_SWITCH_BINARY
    THEN Some([value_id |-> value_id, value |-> value])
    ELSE pending

\* zwave.py:58-60
close_door_command == set_switch(door[1].value, FALSE)

\* zwave.py:62-64
open_door_command == set_switch(door[1].value, TRUE)

\* the signal dispatched to the entity's listener (zwave.py:41-42), when
\* there is an entity
Dispatch(value) ==
    IF door = None THEN event
    ELSE Some([value |-> value, refreshed |-> value_changed(value)])

GInit(ups, datas) ==
    /\ network_up \in ups
    /\ zdata \in datas
    /\ change_verified = [v \in ValueIds |-> TRUE]
    /\ door = None
    /\ gadded = 0
    /\ gpc = "start"
    /\ pending = None
    /\ command = [name |-> "none", applied |-> FALSE]
    /\ event = None

\* zwave.py:20-29 and the constructor, zwave.py:35-42
GarageSetup(discovery_info) ==
    /\ gpc = "start"
    /\ gpc' = "done"
    /\ IF discovery_info = None \/ ~network_up
       THEN UNCHANGED <<change_verified, door, gadded>>
       ELSE LET value == discovery_info[1].value_id
            IN  /\ change_verified' = [change_verified EXCEPT ![value] = FALSE]
                /\ door' = Some([value |-> value,
                                 node |-> NetworkValues[value].node])
                /\ gadded' = gadded + 1
    /\ UNCHANGED <<network_up, zdata, pending, command, event>>
    /\ UNCHANGED fvars

\* zwave.py:58-60
CloseDoor ==
    /\ door # None
    /\ pending' = close_door_command
    /\ command' = [name |-> "close", applied |-> FALSE]
    /\ UNCHANGED <<network_up, zdata, change_verified, door, gadded, gpc, event>>
    /\ UNCHANGED fvars

\* zwave.py:62-64
OpenDoor ==
    /\ door # None
    /\ pending' = open_door_command
    /\ command' = [name |-> "open", applied |-> FALSE]
    /\ UNCHANGED <<network_up, zdata, change_verified, door, gadded, gpc, event>>
    /\ UNCHANGED fvars

\* the device applies the command it was sent and the network signals the
\* change of that value
DeviceApply ==
    /\ pending # None
    /\ zdata' = [zdata EXCEPT ![pending[1].value_id] = pending[1].value]
    /\ pending' = None
    /\ command' = [command EXCEPT !.applied = TRUE]
    /\ event' = Dispatch(pending[1].value_id)
    /\ UNCHANGED <<network_up, change_verified, door, gadded, gpc>>
    /\ UNCHANGED fvars

\* some value of the network changes by itself (a wall switch, a sensor)
\* and the network signals it
NetworkValueChanged(value, d) ==
    /\ pending = None
    /\ zdata' = [zdata EXCEPT ![value] = d]
    /\ command' = [command EXCEPT !.applied = FALSE]
    /\ event' = Dispatch(value)
    /\ UNCHANGED <<network_up, change_verified, door, gadded, gpc, pending>>
    /\ UNCHANGED fvars

GNext ==
    \/ \E discovery_info \in Discoveries : GarageSetup(discovery_info)
    \/ CloseDoor
    \/ OpenDoor
    \/ DeviceApply
    \/ \E value \in ValueIds, d \in BOOLEAN : NetworkValueChanged(value, d)

(***************************************************************************)
(* Specifications.                                                         *)
(***************************************************************************)
vars == <<fvars, gvars>>

\* the forecast platform alone
Init ==
    /\ FInit(Configs)
    /\ GInit({TRUE}, {[v \in ValueIds |-> FALSE]})

Next == FNext(TimelineUnits)

Spec == Init /\ [][Next]_vars

\* every key of the sensor-type table against every reported unit system
UnitInit ==
    /\ FInit(UnitConfigs)
    /\ GInit({TRUE}, {[v \in ValueIds |-> FALSE]})

UnitNext == FNext(ReportedUnits)

UnitSpec == UnitInit /\ [][UnitNext]_vars

\* the garage door platform alone
GarageInit ==
    /\ FInit({MakeConfig(None, None, FALSE, None, TEMP_CELSIUS, <<>>)})
    /\ GInit(BOOLEAN, [ValueIds -> BOOLEAN])

GarageNext == GNext

GarageSpec == GarageInit /\ [][GarageNext]_vars

(***************************************************************************)
(* Properties.                                                             *)
(***************************************************************************)
\* a step taken by a handler (the clock stands still while one runs)
HandlerStep == clock' = clock

SensorHandlers == {"sensor_init", "sensor_update"}

\* the sensor whose update() completed in the last handler
Completed(i) ==
    /\ last.handler \in SensorHandlers
    /\ last.sensor = i
    /\ ~cache.raised
    /\ i \in DOMAIN sensors

\* C1, as stated: the body of each throttled operation runs at most once per
\* 120 seconds, so a body never runs less than 120 seconds after its
\* previous run.
C1_BodyOncePerInterval ==
    [][HandlerStep =>
        \A op \in cache'.ran :
            \/ cache.last_exec[op] = None
            \/ clock - cache.last_exec[op][1] >= 120]_vars

\* C1, amended: a body runs only when the operation never completed, or
\* completed at least 120 seconds ago; an operation whose body does not run
\* leaves its cached fields as they were (no fetch, the previous result).
C1_BodyOncePerIntervalAfterSuccess ==
    [][HandlerStep =>
        /\ \A op \in cache'.ran :
              \/ cache.last_call[op] = None
              \/ clock - cache.last_call[op][1] >= 120
        /\ "update" \notin cache'.ran =>
              /\ cache'.data = cache.data
              /\ cache'.unit_system = cache.unit_system
        /\ "update_currently" \notin cache'.ran =>
              cache'.data_currently = cache.data_currently
        /\ "update_minutely" \notin cache'.ran =>
              cache'.data_minutely = cache.data_minutely
        /\ "update_hourly" \notin cache'.ran =>
              cache'.data_hourly = cache.data_hourly
        /\ "update_daily" \notin cache'.ran =>
              cache'.data_daily = cache.data_daily]_vars

\* C1, witness: a sensor was polled less than 120 seconds after the last
\* completed fetch and nothing was fetched.
C1_Witness ==
    /\ last.handler = "sensor_update"
    /\ last.at = clock
    /\ cache.ran = {}
    /\ cache.last_call["update"] # None
    /\ clock - cache.last_call["update"][1] = 119

\* C2: the throttle window of an operation moves only when that operation's
\* own body ran, and a sensor's first update_daily() runs its body even when
\* update() ran at the same moment.
C2_ThrottlePerOperation ==
    [][HandlerStep =>
        /\ \A op \in Ops :
              cache'.last_call[op] # cache.last_call[op] => op \in cache'.ran
        /\ \A i \in DOMAIN sensors' :
              (/\ last'.handler \in SensorHandlers
               /\ last'.sensor = i
               /\ ~cache'.raised
               /\ sensors'[i].type = "daily_summary"
               /\ cache.last_call["update_daily"] = None)
              => "update_daily" \in cache'.ran]_vars

\* C2, witness: update_daily() ran its body at the very time update() last
\* completed, in a handler in which update() itself was throttled.
C2_Witness ==
    /\ last.handler \in SensorHandlers
    /\ cache.ran = {"update_daily"}
    /\ cache.last_call["update"] = Some(clock)
    /\ cache.last_call["update_daily"] = Some(clock)

\* C3: when a sensor has finished update(), the snapshot its state was read
\* from was fetched at most 120 seconds before.
C3_StateSnapshotFresh ==
    \A i \in DOMAIN sensors :
        Completed(i) =>
            /\ sensors[i].state # None
            /\ sensors[i].state[1].src # None
            /\ last.at - sensors[i].state[1].src[1] <= 120

\* C5: with latitude or longitude unset, with no API key, or with the first
\* fetch raising, setup_platform returns False and add_devices is not called.
C5_SetupFails ==
    (/\ pc # "start"
     /\ \/ config.latitude = None
        \/ config.longitude = None
        \/ ~config.has_api_key
        \/ setup.first_fetch = "raised")
    => /\ result = "False"
       /\ added = <<>>
       /\ sensors = <<>>

\* C5, witness: the configuration was complete and the first fetch raised.
C5_Witness ==
    /\ pc = "failed"
    /\ config.latitude # None
    /\ config.longitude # None
    /\ config.has_api_key
    /\ setup.first_fetch = "raised"
    /\ result = "False"

\* C6: a handler in which the fetch failed raises ValueError and leaves the
\* cache's data, unit_system and four sub-views, and every sensor, as they
\* were.
C6_FailedFetchKeepsCache ==
    [][(HandlerStep /\ pc \in {"sensors", "running"} /\ cache'.raised) =>
        /\ "update" \in cache'.ran
        /\ cache'.data = cache.data
        /\ cache'.unit_system = cache.unit_system
        /\ cache'.data_currently = cache.data_currently
        /\ cache'.data_minutely = cache.data_minutely
        /\ cache'.data_hourly = cache.data_hourly
        /\ cache'.data_daily = cache.data_daily
        /\ sensors' = sensors]_vars

\* C6, witness: the poll of a sensor that had a state failed in its fetch,
\* while the cache held a snapshot.
C6_Witness ==
    /\ pc = "running"
    /\ last.handler = "sensor_update"
    /\ cache.raised
    /\ cache.data # None
    /\ sensors[last.sensor].state # None
    /\ sensors[last.sensor].unit_of_measurement = "degF"

\* C8: the column of the sensor-type table (1-based) for a unit system
C8_Column(unit_system) ==
    CASE unit_system = Some("si") -> 2
      [] unit_system = Some("us") -> 3
      [] unit_system = Some("ca") -> 4
      [] unit_system = Some("uk") -> 5
      [] unit_system = Some("uk2") -> 6
      [] OTHER -> 2

\* C8: after a sensor's update its unit of measurement is the table column
\* of the unit system the service reported, the si column when that unit
\* system is not one of the five.
C8_UnitOfMeasurement ==
    \A i \in DOMAIN sensors :
        Completed(i) =>
            sensors[i].unit_of_measurement =
                SENSOR_TYPES[sensors[i].type][C8_Column(cache.unit_system)]

\* C8, witness: si was requested, the service reported ca, and the wind
\* speed sensor shows km/h.
C8_Witness ==
    /\ Completed(1)
    /\ sensors[1].type = "wind_speed"
    /\ cache.units = "si"
    /\ cache.unit_system = Some("ca")
    /\ sensors[1].unit_of_measurement = "km/h"

\* C10: a setup that succeeded less than 120 seconds after it began made
\* exactly one fetch, and every sensor it constructed read the snapshot of
\* that fetch.
C10_SetupFetchesOnce ==
    (/\ result = "None"
     /\ setup.ended # None
     /\ setup.ended[1] - setup.began < 120)
    => /\ setup.fetches = 1
       /\ last.handler = "add_devices" =>
             \A i \in DOMAIN sensors :
                 sensors[i].state = Some([sensors[i].state[1] EXCEPT
                                             !.src = Some(setup.began)])

\* C10, witness: a setup with three monitored conditions that took 119
\* seconds and made one fetch.
C10_Witness ==
    /\ result = "None"
    /\ Len(sensors) = 3
    /\ setup.ended = Some(119)
    /\ setup.fetches = 1

\* the values of the bound node that are binary switches at index 0
C7_Matching ==
    {v \in ValueIds :
        /\ NetworkValues[v].node = NetworkValues[door[1].value].node
        /\ NetworkValues[v].command_class = 37
        /\ NetworkValues[v].index = 0}

\* C4: the entity asks for a refresh exactly when the changed value's node
\* is the node of the bound value.
C4_RefreshIffSameNode ==
    (door # None /\ event # None) =>
        (event[1].refreshed <=>
            NetworkValues[event[1].value].node = NetworkValues[door[1].value].node)

\* C4, witness: a change of another value of the bound node caused a
\* refresh.
C4_Witness ==
    /\ door # None
    /\ event # None
    /\ event[1].refreshed
    /\ event[1].value # door[1].value

\* C7: is_closed is None when the bound node has no binary switch value at
\* index 0, and otherwise the payload of such a value.
C7_IsClosed ==
    door # None =>
        IF C7_Matching = {} THEN is_closed = None
        ELSE \E v \in C7_Matching : is_closed = Some(zdata[v])

\* C7, witness: is_closed is the payload of the switch at index 0 while the
\* node's other values hold the opposite payload.
C7_Witness ==
    /\ door # None
    /\ door[1].node = 1
    /\ is_closed = Some(TRUE)
    /\ ~zdata[2]
    /\ ~zdata[3]

\* C9: once the device has applied close_door() the door reports closed, and
\* once it has applied open_door() the door reports open, when the bound
\* value is the node's binary switch at index 0.
C9_CommandsAgreeWithState ==
    (/\ door # None
     /\ C7_Matching = {door[1].value}
     /\ command.applied)
    => /\ command.name = "close" => is_closed = Some(TRUE)
       /\ command.name = "open" => is_closed = Some(FALSE)

====
